---- MODULE Spec2Model ----
(***************************************************************************)
(* Inversion in F_2[x]/(x^R - 1) as implemented by gf2x_mod_inv            *)
(* (src/src/gf2x/gf2x_inv.c), with the per-level parameters of             *)
(* include/internal/bike_defs.h.                                           *)
(*                                                                         *)
(* A ring element (pad_r_t) is the set of the degrees of its monomials,    *)
(* a double-width buffer (dbl_pad_r_t) likewise.  One activation of        *)
(* gf2x_mod_inv is a frame (its locals and its position); every call into  *)
(* the arithmetic context is one step.                                     *)
(***************************************************************************)
EXTENDS Integers, Sequences, FiniteSets, TLC

VARIABLES params, ctx, th, sec

vars == <<params, ctx, th, sec>>

(***************************************************************************)
(* Bounds of the model.                                                    *)
(***************************************************************************)
\* the inputs of a hard-coded level are polynomials of degree <= MaxDeg
MaxDeg == 2
\* how many of the primes of SmallPrimeList get a generated table
NumSmallPrimes == 3
\* two concurrent calls get monomials of degree <= MaxConcDeg
MaxConcDeg == 1

(***************************************************************************)
(* Parameters: bike_defs.h and the tables of gf2x_inv.c.                   *)
(***************************************************************************)
R_BITS(level) ==
  CASE level = 0  -> 2053
    [] level = 10 -> 7109
    [] level = 11 -> 773
    [] level = 12 -> 1019
    [] level = 13 -> 1283
    [] level = 14 -> 2029
    [] level = 15 -> 2053
    [] level = 16 -> 2069
    [] level = 17 -> 4021
    [] level = 18 -> 4099
    [] level = 3  -> 24659
    [] level = 1  -> 12323

K_SQR_THR == 64

\* LEVEL == 0: the parameters hard-coded for R=2053
Level0 ==
  [R_BITS      |-> R_BITS(0),
   MAX_I       |-> 12,
   EXP0_K_VALS |-> <<1, 2, 4, 8, 16, 32, 64, 128, 256, 512, 1024, 2048>>,
   EXP0_L_VALS |-> <<1027, 1540, 385, 409, 988, 969,
                      740, 1502, 1810, 1565, 2049, 16>>,
   EXP1_K_VALS |-> <<0, 1, 0, 0, 0, 0, 0, 0, 0, 0, 0, 3>>,
   EXP1_L_VALS |-> <<0, 1027, 0, 0, 0, 0, 0, 0, 0, 0, 0, 770>>]

\* LEVEL == 10: the parameters hard-coded for R=7109
Level10 ==
  [R_BITS      |-> R_BITS(10),
   MAX_I       |-> 13,
   EXP0_K_VALS |-> <<1, 2, 4, 8, 16, 32,
                      64, 128, 256, 512, 1024, 2048, 4096>>,
   EXP0_L_VALS |-> <<3555, 5332, 1333, 6748, 2359, 5643,
                      2238, 3908, 2332, 6948, 4594, 5324, 1393>>,
   EXP1_K_VALS |-> <<0, 1, 0, 0, 0, 0, 3, 67, 195, 451, 0, 963, 3011>>,
   EXP1_L_VALS |-> <<0, 3555, 0, 0, 0, 0,
                      2666, 2057, 5586, 2864, 0, 981, 4838>>]

\* (mutant) LEVEL == 11 with exp0_l[0] mistyped
Level11_Typo ==
  [R_BITS      |-> R_BITS(11),
   MAX_I       |-> 10,
   EXP0_K_VALS |-> <<1, 2, 4, 8, 16, 32, 64, 128, 256, 512>>,
   EXP0_L_VALS |-> <<378, 580, 145, 154, 526, 715, 272, 549, 704, 123>>,
   EXP1_K_VALS |-> <<0, 1, 0, 0, 0, 0, 0, 0, 3, 259>>,
   EXP1_L_VALS |-> <<0, 387, 0, 0, 0, 0, 0, 0, 290, 88>>]

\* LEVEL == 11: the parameters hard-coded for R=773
Level11 ==
  [R_BITS      |-> R_BITS(11),
   MAX_I       |-> 10,
   EXP0_K_VALS |-> <<1, 2, 4, 8, 16, 32, 64, 128, 256, 512>>,
   EXP0_L_VALS |-> <<387, 580, 145, 154, 526, 715, 272, 549, 704, 123>>,
   EXP1_K_VALS |-> <<0, 1, 0, 0, 0, 0, 0, 0, 3, 259>>,
   EXP1_L_VALS |-> <<0, 387, 0, 0, 0, 0, 0, 0, 290, 88>>]

\* (mutant) LEVEL == 12 with exp1_k[6] mistyped
Level12_Typo ==
  [R_BITS      |-> R_BITS(12),
   MAX_I       |-> 10,
   EXP0_K_VALS |-> <<1, 2, 4, 8, 16, 32, 64, 128, 256, 512>>,
   EXP0_L_VALS |-> <<510, 255, 828, 816, 449, 858, 446, 211, 704, 382>>,
   EXP1_K_VALS |-> <<0, 0, 0, 1, 9, 25, 75, 121, 249, 505>>,
   EXP1_L_VALS |-> <<0, 0, 0, 510, 408, 791, 24, 514, 440, 1003>>]

\* LEVEL == 12: the parameters hard-coded for R=1019
Level12 ==
  [R_BITS      |-> R_BITS(12),
   MAX_I       |-> 10,
   EXP0_K_VALS |-> <<1, 2, 4, 8, 16, 32, 64, 128, 256, 512>>,
   EXP0_L_VALS |-> <<510, 255, 828, 816, 449, 858, 446, 211, 704, 382>>,
   EXP1_K_VALS |-> <<0, 0, 0, 1, 9, 25, 57, 121, 249, 505>>,
   EXP1_L_VALS |-> <<0, 0, 0, 510, 408, 791, 24, 514, 440, 1003>>]

\* LEVEL == 13: the parameters hard-coded for R=1283
Level13 ==
  [R_BITS      |-> R_BITS(13),
   MAX_I       |-> 11,
   EXP0_K_VALS |-> <<1, 2, 4, 8, 16, 32, 64, 128, 256, 512, 1024>>,
   EXP0_L_VALS |-> <<642, 321, 401, 426, 573, 1164, 48, 1021, 645, 333, 551>>,
   EXP1_K_VALS |-> <<0, 0, 0, 0, 0, 0, 0, 0, 1, 0, 257>>,
   EXP1_L_VALS |-> <<0, 0, 0, 0, 0, 0, 0, 0, 642, 0, 964>>]

\* LEVEL == 14: the parameters hard-coded for R=2029
Level14 ==
  [R_BITS      |-> R_BITS(14),
   MAX_I       |-> 11,
   EXP0_K_VALS |-> <<1, 2, 4, 8, 16, 32, 64, 128, 256, 512, 1024>>,
   EXP0_L_VALS |-> <<1015, 1522, 1395, 214, 1158,
                      1824, 1445, 184, 1392, 1998, 961>>,
   EXP1_K_VALS |-> <<0, 1, 0, 3, 0, 11, 43, 107, 235, 491, 1003>>,
   EXP1_L_VALS |-> <<0, 1015, 0, 761, 0, 534, 96, 748, 1689, 1506, 2010>>]

\* LEVEL == 15: the parameters hard-coded for R=2053
Level15 ==
  [R_BITS      |-> R_BITS(15),
   MAX_I       |-> 12,
   EXP0_K_VALS |-> <<1, 2, 4, 8, 16, 32, 64, 128, 256, 512, 1024, 2048>>,
   EXP0_L_VALS |-> <<1027, 1540, 385, 409, 988, 969,
                      740, 1502, 1810, 1565, 2049, 16>>,
   EXP1_K_VALS |-> <<0, 1, 0, 0, 0, 0, 0, 0, 0, 0, 0, 3>>,
   EXP1_L_VALS |-> <<0, 1027, 0, 0, 0, 0, 0, 0, 0, 0, 0, 770>>]

\* LEVEL == 16: the parameters hard-coded for R=2069
Level16 ==
  [R_BITS      |-> R_BITS(16),
   MAX_I       |-> 12,
   EXP0_K_VALS |-> <<1, 2, 4, 8, 16, 32, 64, 128, 256, 512, 1024, 2048>>,
   EXP0_L_VALS |-> <<1035, 1552, 388, 1576, 976, 836,
                      1643, 1473, 1417, 959, 1045, 1662>>,
   EXP1_K_VALS |-> <<0, 1, 0, 0, 3, 0, 0, 0, 0, 0, 0, 19>>,
   EXP1_L_VALS |-> <<0, 1035, 0, 0, 776, 0, 0, 0, 0, 0, 0, 122>>]

\* LEVEL == 17: the parameters hard-coded for R=4021
Level17 ==
  [R_BITS      |-> R_BITS(17),
   MAX_I       |-> 12,
   EXP0_K_VALS |-> <<1, 2, 4, 8, 16, 32, 64, 128, 256, 512, 1024, 2048>>,
   EXP0_L_VALS |-> <<2011, 3016, 754, 1555, 1404, 926,
                      1003, 759, 1078, 15, 225, 2373>>,
   EXP1_K_VALS |-> <<0, 1, 0, 0, 3, 19, 0, 51, 179, 435, 947, 1971>>,
   EXP1_L_VALS |-> <<0, 2011, 0, 0, 1508, 2186,
                      0, 1673, 3192, 3021, 1084, 2640>>]

\* LEVEL == 18: the parameters hard-coded for R=4099
Level18 ==
  [R_BITS      |-> R_BITS(18),
   MAX_I       |-> 13,
   EXP0_K_VALS |-> <<1, 2, 4, 8, 16, 32,
                      64, 128, 256, 512, 1024, 2048, 4096>>,
   EXP0_L_VALS |-> <<2050, 1025, 1281, 1361, 3672, 1973,
                      2778, 2966, 702, 924, 1184, 4097, 4>>,
   EXP1_K_VALS |-> <<0, 0, 0, 0, 0, 0, 0, 0, 0, 0, 0, 0, 1>>,
   EXP1_L_VALS |-> <<0, 0, 0, 0, 0, 0, 0, 0, 0, 0, 0, 0, 2050>>]

\* LEVEL == 1: the parameters hard-coded for R=12323
Level1 ==
  [R_BITS      |-> R_BITS(1),
   MAX_I       |-> 14,
   EXP0_K_VALS |-> <<1, 2, 4, 8, 16, 32, 64,
                      128, 256, 512, 1024, 2048, 4096, 8192>>,
   EXP0_L_VALS |-> <<6162, 3081, 3851, 5632, 22, 484, 119,
                      1838, 1742, 3106, 10650, 1608, 10157, 8816>>,
   EXP1_K_VALS |-> <<0, 0, 0, 0, 0, 1, 0, 0, 0, 0, 0, 0, 33, 4129>>,
   EXP1_L_VALS |-> <<0, 0, 0, 0, 0, 6162, 0, 0, 0, 0, 0, 0, 242, 5717>>]

\* LEVEL == 3: the parameters hard-coded for R=24659
Level3 ==
  [R_BITS      |-> R_BITS(3),
   MAX_I       |-> 15,
   EXP0_K_VALS |-> <<1, 2, 4, 8, 16, 32, 64,
                      128, 256, 512, 1024, 2048, 4096, 8192, 16384>>,
   EXP0_L_VALS |-> <<12330, 6165, 7706, 3564, 2711, 1139, 15053,
                      1258, 4388, 20524, 9538, 6393, 10486, 1715, 6804>>,
   EXP1_K_VALS |-> <<0, 0, 0, 0, 1, 0, 17, 0, 0, 0, 0, 0, 0, 81, 8273>>,
   EXP1_L_VALS |-> <<0, 0, 0, 0, 12330, 0, 13685,
                      0, 0, 0, 0, 0, 0, 23678, 19056>>]

\* the parameter block the build of each level compiles in
HardCoded ==
  {Level0, Level10, Level11, Level12, Level13, Level14, Level15, Level16,
   Level17, Level18, Level1, Level3}

\* 2^k mod r, by square and multiply
RECURSIVE Pow2Mod(_, _)
Pow2Mod(k, r) ==
  IF k = 0 THEN 1 % r
  ELSE IF k % 2 = 1 THEN (2 * Pow2Mod(k - 1, r)) % r
  ELSE LET h == Pow2Mod(k \div 2, r) IN (h * h) % r

RECURSIVE Pow2(_)
Pow2(n) == IF n = 0 THEN 1 ELSE 2 * Pow2(n - 1)

\* floor(log(n, 2)) for n >= 1
RECURSIVE FloorLog2(_)
FloorLog2(n) == IF n <= 1 THEN 0 ELSE 1 + FloorLog2(n \div 2)

\* inverse_mod(x, r)
InverseMod(x, r) == CHOOSE l \in 1..(r - 1) : (x * l) % r = 1

\* bit i of n
Bit(n, i) == (n \div Pow2(i)) % 2

\* The Sage recipe that generates the parameters for a desired r.
SageParams(r) ==
  LET max_i  == FloorLog2(r - 2) + 1
      exp0_k == [n \in 1..max_i |-> Pow2(n - 1)]
      exp0_l == [n \in 1..max_i |-> InverseMod(Pow2Mod(exp0_k[n], r), r)]
      exp1_k == [n \in 1..max_i |->
                   IF Bit(r - 2, n - 1) = 1 THEN (r - 2) % Pow2(n - 1) ELSE 0]
      exp1_l == [n \in 1..max_i |->
                   IF exp1_k[n] # 0
                   THEN InverseMod(Pow2Mod(exp1_k[n], r), r) ELSE 0]
  IN  [R_BITS |-> r, MAX_I |-> max_i, EXP0_K_VALS |-> exp0_k,
       EXP0_L_VALS |-> exp0_l, EXP1_K_VALS |-> exp1_k, EXP1_L_VALS |-> exp1_l]

(***************************************************************************)
(* The arithmetic context.  ctx = "ring" computes in F_2[x]/(x^R - 1);     *)
(* ctx = "exponent" keeps, for each buffer, the exponent e of the power    *)
(* a^e it holds (the set of the one-bits of e): a product adds exponents,  *)
(* a squaring doubles them.  A zero-filled buffer holds no power of a and  *)
(* is written NoPower there.                                               *)
(***************************************************************************)
NoPower == {-1}

Zero(cx) == IF cx = "ring" THEN {} ELSE NoPower

\* the sum of two numbers given by their one-bits
RECURSIVE BitsAdd(_, _)
BitsAdd(x, y) ==
  IF x \cap y = {} THEN x \cup y
  ELSE BitsAdd((x \cup y) \ (x \cap y), {b + 1 : b \in x \cap y})

\* the k with l = (2^k)^-1 % r, 0 when there is none
KOfL(r, l) ==
  LET ks == {k \in 1..(r - 1) : (Pow2Mod(k, r) * (l % r)) % r = 1}
  IN  IF ks = {} THEN 0 ELSE CHOOSE k \in ks : \A m \in ks : k <= m

\* ctx->sqr: the unreduced square, into a double-width buffer
ctx_sqr(cx, x) ==
  IF cx = "ring" THEN {2 * j : j \in x}
  ELSE IF x = NoPower THEN NoPower ELSE {b + 1 : b \in x}

\* ctx->red: a double-width value modulo x^r - 1
ctx_red(cx, r, d) ==
  IF cx = "ring"
  THEN {k \in {j % r : j \in d} : (k \in d) # ((k + r) \in d)}
  ELSE d

\* ctx->k_sqr: the permutation of the bits of x with parameter l
ctx_k_sqr(cx, r, x, l) ==
  IF cx = "ring" THEN {j \in 0..(r - 1) : ((j * l) % r) \in x}
  ELSE IF x = NoPower \/ KOfL(r, l) = 0 THEN NoPower
  ELSE LET k == KOfL(r, l) IN {b + k : b \in x}

\* gf2x_mod_mul_with_ctx: the product modulo x^r - 1
gf2x_mod_mul_with_ctx(cx, r, x, y) ==
  IF cx = "ring"
  THEN {k \in {(i + j) % r : i \in x, j \in y} :
          Cardinality({i \in x : ((k - i) % r) \in y}) % 2 = 1}
  ELSE IF x = NoPower \/ y = NoPower THEN NoPower ELSE BitsAdd(x, y)

(***************************************************************************)
(* gf2x_mod_inv, one step per call into the context.                       *)
(*                                                                         *)
(* A frame holds the locals of one activation: the position pc, the        *)
(* argument a, the result c, the scratch elements f, g and t, the loop     *)
(* counter i, the state of repeated_squaring (its counter j, its bound     *)
(* num_sqrs, the element tgt it squares in place, the position ret it      *)
(* returns to) and the calls issued so far.  sec_buf is kept apart, in the *)
(* storage SecBufOf names.                                                 *)
(***************************************************************************)
\* what a read of tbl[idx] yields; beyond the MAX_I words of the array, any
\* word: one that skips, one that squares once, one that k-squares
StackWords == {0, 1, K_SQR_THR + 1}
ArrayRead(p, tbl, idx) ==
  IF idx \in 0..(p.MAX_I - 1)
  THEN {IF idx < Len(tbl) THEN tbl[idx + 1] ELSE 0}
  ELSE StackWords

\* the frame before gf2x_mod_inv(c, a) is entered
NewFrame(cx, a) ==
  [pc |-> "call", a |-> a, c |-> Zero(cx), f |-> Zero(cx), g |-> Zero(cx),
   t |-> Zero(cx), i |-> 0, j |-> 0, num_sqrs |-> 0, tgt |-> "g",
   ret |-> "call", trace |-> <<>>]

\* (mutant) sec_buf is declared without DEFER_CLEANUP
DeferCleanup_NoSecBuf == {"f", "g", "t"}

\* the locals declared with DEFER_CLEANUP
DeferCleanup == {"f", "g", "t", "sec_buf"}

\* pad_r_cleanup / dbl_pad_r_cleanup: the buffer, zero-filled
pad_r_cleanup(cx, x) == Zero(cx)

\* (mutant) t.val = a->val is missing: t stays zero
Enter_NoT(cx, s) ==
  [s EXCEPT !.f = s.a, !.g = Zero(cx), !.i = 1]

\* the locals are zero-initialised; f.val = a->val; t.val = a->val; i = 1
Enter(cx, s) ==
  [s EXCEPT !.f = s.a, !.t = s.a, !.g = Zero(cx), !.i = 1]

\* (mutant) the loop runs while i <= MAX_I
LoopTest_Le(p, s) ==
  IF s.i <= p.MAX_I
  THEN [s EXCEPT !.pc = "exp0"]
  ELSE [s EXCEPT !.pc = "sqr", !.tgt = "t", !.j = 0, !.num_sqrs = 1,
                 !.ret = "return"]

\* for(...; i < MAX_I; ...): the body again, or the final squaring of t
LoopTest(p, s) ==
  IF s.i < p.MAX_I
  THEN [s EXCEPT !.pc = "exp0"]
  ELSE [s EXCEPT !.pc = "sqr", !.tgt = "t", !.j = 0, !.num_sqrs = 1,
                 !.ret = "return"]

\* (mutant) repeated_squaring without c->val = a->val: it squares the old g
repeated_squaring_NoCopy(s, num_sqrs, ret) ==
  [s EXCEPT !.tgt = "g", !.j = 0, !.num_sqrs = num_sqrs,
            !.ret = ret, !.pc = IF 0 < num_sqrs THEN "sqr" ELSE ret]

\* repeated_squaring(&g, &f, num_sqrs, ...): c->val = a->val and the loop test
repeated_squaring(s, num_sqrs, ret) ==
  [s EXCEPT !.g = s.f, !.tgt = "g", !.j = 0, !.num_sqrs = num_sqrs,
            !.ret = ret, !.pc = IF 0 < num_sqrs THEN "sqr" ELSE ret]

\* (mutant) the test is k < K_SQR_THR
UseRepeatedSquaring_Lt(k) == k < K_SQR_THR

\* the test k <= K_SQR_THR of lines 277 and 288
UseRepeatedSquaring(k) == k <= K_SQR_THR

\* if(k <= K_SQR_THR) repeated_squaring(...) else ctx.k_sqr(&g, &f, l)
Exponentiation(cx, p, s, ks, ls, idx, ret) ==
  UNION {IF UseRepeatedSquaring(k)
         THEN {repeated_squaring(s, k, ret)}
         ELSE {[s EXCEPT !.g = ctx_k_sqr(cx, p.R_BITS, s.f, l),
                         !.trace = Append(s.trace, <<"k_sqr", l>>),
                         !.pc = ret] : l \in ArrayRead(p, ls, idx)}
         : k \in ArrayRead(p, ks, idx)}

\* the test exp1_k[i] != 0 of line 286, k being the word read
Exp1Taken(s, k) == k # 0

\* (mutant) the loop also stops once the element is 0 or 1, which squaring
\* no longer changes
MoreSquarings_Early(s) ==
  /\ s.j < s.num_sqrs
  /\ (IF s.tgt = "g" THEN s.g ELSE s.t) \notin {{}, {0}}

\* the test i < num_sqrs of the loop of repeated_squaring
MoreSquarings(s) == s.j < s.num_sqrs

(***************************************************************************)
(* The steps.  Each yields the successors of frame s with sec_buf holding  *)
(* sb, as pairs <<frame, sec_buf>>.                                        *)
(***************************************************************************)
\* entry: the locals are initialised, f and t are set to a
StepCall(cx, p, s, sb) ==
  {<<LoopTest(p, Enter(cx, s)), Zero(cx)>>}

\* exponentiation 0: g = f^2^2^(i-1)
StepExp0(cx, p, s, sb) ==
  {<<s2, sb>> : s2 \in Exponentiation(cx, p, s, p.EXP0_K_VALS,
                                      p.EXP0_L_VALS, s.i - 1, "mulf")}

\* gf2x_mod_sqr_in_place: ctx->sqr(secure_buffer, a)
StepSqr(cx, p, s, sb) ==
  {<<[s EXCEPT !.pc = "red", !.trace = Append(s.trace, <<"sqr", 0>>)],
     ctx_sqr(cx, IF s.tgt = "g" THEN s.g ELSE s.t)>>}

\* gf2x_mod_sqr_in_place: ctx->red(a, secure_buffer), and what follows it
StepRed(cx, p, s, sb) ==
  LET v  == ctx_red(cx, p.R_BITS, sb)
      s1 == [s EXCEPT !.j = s.j + 1,
                      !.trace = Append(s.trace, <<"red", 0>>),
                      !.g = IF s.tgt = "g" THEN v ELSE s.g,
                      !.t = IF s.tgt = "t" THEN v ELSE s.t]
  IN  {<<[s1 EXCEPT !.pc = IF MoreSquarings(s1) THEN "sqr" ELSE s.ret], sb>>}

\* (mutant) f = g*g
StepMulF_GG(cx, p, s, sb) ==
  LET s1 == [s EXCEPT !.f = gf2x_mod_mul_with_ctx(cx, p.R_BITS, s.g, s.g),
                      !.trace = Append(s.trace, <<"mul", 0>>)]
  IN  {<<IF k # 0
         THEN [s1 EXCEPT !.pc = "exp1"]
         ELSE LoopTest(p, [s1 EXCEPT !.i = s.i + 1]), sb>>
       : k \in ArrayRead(p, p.EXP1_K_VALS, s.i)}

\* f = f*g, then the test of exp1_k[i]
StepMulF(cx, p, s, sb) ==
  LET s1 == [s EXCEPT !.f = gf2x_mod_mul_with_ctx(cx, p.R_BITS, s.g, s.f),
                      !.trace = Append(s.trace, <<"mul", 0>>)]
  IN  {<<IF Exp1Taken(s1, k)
         THEN [s1 EXCEPT !.pc = "exp1"]
         ELSE LoopTest(p, [s1 EXCEPT !.i = s.i + 1]), sb>>
       : k \in ArrayRead(p, p.EXP1_K_VALS, s.i)}

\* exponentiation 1: g = f^2^((r-2) % 2^i)
StepExp1(cx, p, s, sb) ==
  {<<s2, sb>> : s2 \in Exponentiation(cx, p, s, p.EXP1_K_VALS,
                                      p.EXP1_L_VALS, s.i, "mult")}

\* t = t*g, then the next iteration
StepMulT(cx, p, s, sb) ==
  LET s1 == [s EXCEPT !.t = gf2x_mod_mul_with_ctx(cx, p.R_BITS, s.g, s.t),
                      !.trace = Append(s.trace, <<"mul", 0>>)]
  IN  {<<LoopTest(p, [s1 EXCEPT !.i = s.i + 1]), sb>>}

\* c->val = t.val, and the deferred cleanups as the function returns
StepReturn(cx, p, s, sb) ==
  {<<[s EXCEPT !.pc = "done", !.c = s.t,
        !.f = IF "f" \in DeferCleanup THEN pad_r_cleanup(cx, s.f) ELSE s.f,
        !.g = IF "g" \in DeferCleanup THEN pad_r_cleanup(cx, s.g) ELSE s.g,
        !.t = IF "t" \in DeferCleanup THEN pad_r_cleanup(cx, s.t) ELSE s.t],
     IF "sec_buf" \in DeferCleanup THEN pad_r_cleanup(cx, sb) ELSE sb>>}

Step(cx, p, s, sb) ==
  CASE s.pc = "call"   -> StepCall(cx, p, s, sb)
    [] s.pc = "exp0"   -> StepExp0(cx, p, s, sb)
    [] s.pc = "sqr"    -> StepSqr(cx, p, s, sb)
    [] s.pc = "red"    -> StepRed(cx, p, s, sb)
    [] s.pc = "mulf"   -> StepMulF(cx, p, s, sb)
    [] s.pc = "exp1"   -> StepExp1(cx, p, s, sb)
    [] s.pc = "mult"   -> StepMulT(cx, p, s, sb)
    [] s.pc = "return" -> StepReturn(cx, p, s, sb)
    [] OTHER           -> {}

\* gf2x_mod_inv run from frame s to its return, alone
RECURSIVE RunAlone(_, _, _, _)
RunAlone(cx, p, s, sb) ==
  IF s.pc = "done" THEN s
  ELSE LET n == CHOOSE n \in Step(cx, p, s, sb) : TRUE
       IN  RunAlone(cx, p, n[1], n[2])

gf2x_mod_inv(cx, p, a) == RunAlone(cx, p, NewFrame(cx, a), Zero(cx)).c

\* (mutant) sec_buf is one static buffer
SecBufOf_Static(tid) == 1

\* the storage that holds the sec_buf of thread tid: a local of its call
SecBufOf(tid) == tid

\* thread tid is at position pc, with its frame and its sec_buf
At(tid, pc) == tid \in DOMAIN th /\ th[tid].pc = pc
SecBuf(tid) == sec[SecBufOf(tid)]

\* thread tid moves to frame n[1], leaving n[2] in its sec_buf
Commit(tid, n) ==
  /\ th' = [th EXCEPT ![tid] = n[1]]
  /\ sec' = [sec EXCEPT ![SecBufOf(tid)] = n[2]]

Call(tid) ==
  /\ At(tid, "call")
  /\ \E n \in StepCall(ctx, params, th[tid], SecBuf(tid)) : Commit(tid, n)
  /\ UNCHANGED <<params, ctx>>

Exp0(tid) ==
  /\ At(tid, "exp0")
  /\ \E n \in StepExp0(ctx, params, th[tid], SecBuf(tid)) : Commit(tid, n)
  /\ UNCHANGED <<params, ctx>>

Sqr(tid) ==
  /\ At(tid, "sqr")
  /\ \E n \in StepSqr(ctx, params, th[tid], SecBuf(tid)) : Commit(tid, n)
  /\ UNCHANGED <<params, ctx>>

Red(tid) ==
  /\ At(tid, "red")
  /\ \E n \in StepRed(ctx, params, th[tid], SecBuf(tid)) : Commit(tid, n)
  /\ UNCHANGED <<params, ctx>>

MulF(tid) ==
  /\ At(tid, "mulf")
  /\ \E n \in StepMulF(ctx, params, th[tid], SecBuf(tid)) : Commit(tid, n)
  /\ UNCHANGED <<params, ctx>>

Exp1(tid) ==
  /\ At(tid, "exp1")
  /\ \E n \in StepExp1(ctx, params, th[tid], SecBuf(tid)) : Commit(tid, n)
  /\ UNCHANGED <<params, ctx>>

MulT(tid) ==
  /\ At(tid, "mult")
  /\ \E n \in StepMulT(ctx, params, th[tid], SecBuf(tid)) : Commit(tid, n)
  /\ UNCHANGED <<params, ctx>>

Return(tid) ==
  /\ At(tid, "return")
  /\ \E n \in StepReturn(ctx, params, th[tid], SecBuf(tid)) : Commit(tid, n)
  /\ UNCHANGED <<params, ctx>>

\* the threads that may be inside gf2x_mod_inv
Threads == {1, 2}

Next ==
  \/ \E tid \in Threads : Call(tid)
  \/ \E tid \in Threads : Exp0(tid)
  \/ \E tid \in Threads : Sqr(tid)
  \/ \E tid \in Threads : Red(tid)
  \/ \E tid \in Threads : MulF(tid)
  \/ \E tid \in Threads : Exp1(tid)
  \/ \E tid \in Threads : MulT(tid)
  \/ \E tid \in Threads : Return(tid)

(***************************************************************************)
(* Inputs and specifications.                                              *)
(***************************************************************************)
One == {0}

SmallPrimeList == <<3, 5, 7, 11, 13, 17>>
SmallPrimes == {SmallPrimeList[n] : n \in 1..NumSmallPrimes}
Generated == {SageParams(r) : r \in SmallPrimes}

\* the polynomials of degree <= MaxDeg; zero and the monomials among them
LowDegree == SUBSET (0..MaxDeg)
Sparse == {{}} \cup {{j} : j \in 0..MaxDeg}

\* the levels whose inversions are run on every input of LowDegree
Dense == {Level11}

\* the inputs tried under parameters p
Inputs(p) ==
  IF p \in Generated THEN SUBSET (0..(p.R_BITS - 1))
  ELSE IF p \in Dense THEN LowDegree ELSE Sparse

\* one call, in the ring
Init ==
  /\ ctx = "ring"
  /\ params \in HardCoded \cup Generated
  /\ \E a \in Inputs(params) : th = [tid \in {1} |-> NewFrame(ctx, a)]
  /\ sec = [tid \in {1} |-> Zero(ctx)]

Spec == Init /\ [][Next]_vars

\* a call runs on once entered
FairSpec == Spec /\ WF_vars(Next)

\* one call on a, which is a^1, keeping exponents
InitExp ==
  /\ ctx = "exponent"
  /\ params \in HardCoded
  /\ th = [tid \in {1} |-> NewFrame(ctx, {0})]
  /\ sec = [tid \in {1} |-> Zero(ctx)]

SpecExp == InitExp /\ [][Next]_vars

\* two concurrent calls on different monomials, in the ring
InitConc ==
  /\ ctx = "ring"
  /\ params \in {Level11} \cup Generated
  /\ \E d1, d2 \in 0..MaxConcDeg :
       /\ d1 < d2
       /\ th = [tid \in Threads |-> NewFrame(ctx, IF tid = 1 THEN {d1} ELSE {d2})]
  /\ sec = [tid \in Threads |-> Zero(ctx)]

SpecConc == InitConc /\ [][Next]_vars

(***************************************************************************)
(* Polynomials over GF(2) (not reduced), for stating invertibility.        *)
(***************************************************************************)
PolyXor(x, y) == (x \cup y) \ (x \cap y)
PolyDeg(x) == CHOOSE d \in x : \A e \in x : e <= d
PolyMul(x, y) ==
  {k \in {i + j : i \in x, j \in y} :
     Cardinality({i \in x : (k - i) \in y}) % 2 = 1}

\* x mod y, for y # 0
RECURSIVE PolyMod(_, _)
PolyMod(x, y) ==
  IF x = {} \/ PolyDeg(x) < PolyDeg(y) THEN x
  ELSE PolyMod(PolyXor(x, {j + (PolyDeg(x) - PolyDeg(y)) : j \in y}), y)

RECURSIVE PolyGcd(_, _)
PolyGcd(x, y) == IF y = {} THEN x ELSE PolyGcd(y, PolyMod(x, y))

\* x^n mod y, for y # 0
RECURSIVE XPowMod(_, _)
XPowMod(n, y) ==
  IF n = 0 THEN PolyMod({0}, y)
  ELSE IF n % 2 = 1 THEN PolyMod({j + 1 : j \in XPowMod(n - 1, y)}, y)
  ELSE LET h == XPowMod(n \div 2, y) IN PolyMod(PolyMul(h, h), y)

\* a is invertible in F_2[x]/(x^r - 1): gcd(a, x^r - 1) = 1
Invertible(r, a) ==
  /\ a # {}
  /\ PolyGcd(a, PolyXor(XPowMod(r, a), PolyMod({0}, a))) = {0}

Done(tid) == tid \in DOMAIN th /\ th[tid].pc = "done"

(***************************************************************************)
(* C1.  Inverse identity: for every a that is invertible in                *)
(* F_2[x]/(x^R - 1), the c that gf2x_mod_inv(c, a) returns satisfies       *)
(* multiply(c, a) == one, the polynomial with only bit 0 set.              *)
(***************************************************************************)
C1_InverseIdentity ==
  \A tid \in Threads :
    (Done(tid) /\ ctx = "ring" /\ Invertible(params.R_BITS, th[tid].a))
      => gf2x_mod_mul_with_ctx(ctx, params.R_BITS, th[tid].c, th[tid].a) = One

\* the inverse of 1 + x + x^2 for R = 773 has been returned
C1_Witness ==
  /\ Done(1)
  /\ params = Level11
  /\ th[1].a = {0, 1, 2}
  /\ Invertible(773, th[1].a)
  /\ Cardinality(th[1].c) > 3
  /\ gf2x_mod_mul_with_ctx(ctx, 773, th[1].c, th[1].a) = One

\* the gcd criterion agrees with a search for the inverse (generated tables)
InvertibleIsUnit ==
  params \in Generated =>
    \A tid \in DOMAIN th :
      Invertible(params.R_BITS, th[tid].a)
        <=> \E b \in SUBSET (0..(params.R_BITS - 1)) :
              gf2x_mod_mul_with_ctx(ctx, params.R_BITS, b, th[tid].a) = One

(***************************************************************************)
(* C2.  As claimed: the exponent of a in the returned c is 2^R - 2, the    *)
(* number whose one-bits are 1..R-1.                                       *)
(***************************************************************************)
C2_Original ==
  \A tid \in Threads :
    (Done(tid) /\ ctx = "exponent") => th[tid].c = 1..(params.R_BITS - 1)

(***************************************************************************)
(* C2, amended.  The addition chain of gf2x_mod_inv raises its input to    *)
(* the exponent 2^(R-1) - 2 (one-bits 1..R-2): t starts at a^1, each       *)
(* t = t*g adds the exponent of g, each squaring doubles, and after the    *)
(* final squaring the exponent of the returned c is exactly 2^(R-1) - 2.   *)
(***************************************************************************)
C2_Amended ==
  \A tid \in Threads :
    (Done(tid) /\ ctx = "exponent") => th[tid].c = 1..(params.R_BITS - 2)

\* the chain for R = 24659 has returned
C2_Witness ==
  Done(1) /\ ctx = "exponent" /\ params = Level3 /\ th[1].c = 1..24657

(***************************************************************************)
(* C3.  Table correctness of the permutation offsets: for every level's    *)
(* hard-coded table and every index i in 0..MAX_I-1,                       *)
(* (2^exp0_k[i] mod R) * exp0_l[i] mod R = 1, and for every i with         *)
(* exp1_k[i] # 0, (2^exp1_k[i] mod R) * exp1_l[i] mod R = 1; in            *)
(* particular exp0_l[0] = 387 for R = 773.                                 *)
(***************************************************************************)
C3_TableCorrect ==
  params \in HardCoded =>
    LET r == params.R_BITS
    IN  /\ \A n \in 1..params.MAX_I :
             /\ (Pow2Mod(params.EXP0_K_VALS[n], r) * params.EXP0_L_VALS[n]) % r = 1
             /\ params.EXP1_K_VALS[n] # 0 =>
                  (Pow2Mod(params.EXP1_K_VALS[n], r) * params.EXP1_L_VALS[n]) % r = 1
        /\ r = 773 => params.EXP0_L_VALS[1] = 387

\* the build for R = 773 has just k-squared with the offset exp1_l[9] = 88
C3_Witness ==
  /\ params = Level11
  /\ th[1].pc = "mult"
  /\ th[1].trace[Len(th[1].trace)] = <<"k_sqr", 88>>

(***************************************************************************)
(* C4.  The hard-coded tables are the ones the recipe derives for their R: *)
(* MAX_I = floor(log2(R - 2)) + 1; exp0_k[i] = 2^i; exp1_k[i] =            *)
(* (R - 2) mod 2^i if bit i of R - 2 is set and 0 otherwise; exp1_l[i] = 0 *)
(* exactly when exp1_k[i] = 0.  For R = 773, MAX_I = 10 and                *)
(* exp0_k = [1,2,4,8,16,32,64,128,256,512].                                *)
(***************************************************************************)
C4_TableDerived ==
  params \in HardCoded =>
    LET r == params.R_BITS
    IN  /\ params.MAX_I = FloorLog2(r - 2) + 1
        /\ Len(params.EXP0_K_VALS) = params.MAX_I
        /\ Len(params.EXP0_L_VALS) = params.MAX_I
        /\ Len(params.EXP1_K_VALS) = params.MAX_I
        /\ Len(params.EXP1_L_VALS) = params.MAX_I
        /\ \A i \in 0..(params.MAX_I - 1) :
             /\ params.EXP0_K_VALS[i + 1] = Pow2(i)
             /\ params.EXP1_K_VALS[i + 1] =
                  (IF Bit(r - 2, i) = 1 THEN (r - 2) % Pow2(i) ELSE 0)
             /\ (params.EXP1_L_VALS[i + 1] = 0) <=> (params.EXP1_K_VALS[i + 1] = 0)
        /\ r = 773 =>
             /\ params.MAX_I = 10
             /\ params.EXP0_K_VALS = <<1, 2, 4, 8, 16, 32, 64, 128, 256, 512>>

\* the build for R = 1019 is at exponentiation 1 with exp1_k[6] = 57
C4_Witness ==
  /\ params = Level12
  /\ th[1].pc = "exp1"
  /\ th[1].i = 6
  /\ params.EXP1_K_VALS[th[1].i + 1] = 57

(***************************************************************************)
(* C5.  Constant-time shape: for a fixed R the ordered sequence of calls   *)
(* into the context (each sqr, red, k_sqr with its l, and multiplication)  *)
(* that gf2x_mod_inv issues is the same for every input: it is the         *)
(* sequence issued for the input 1.                                        *)
(***************************************************************************)
CallSequence(p) == RunAlone("ring", p, NewFrame("ring", One), Zero("ring")).trace

C5_ConstantTimeShape ==
  \A tid \in Threads :
    (Done(tid) /\ ctx = "ring") => th[tid].trace = CallSequence(params)

\* the call on 1 + x + x^2 for R = 773 has returned
C5_Witness ==
  /\ Done(1)
  /\ params = Level11
  /\ th[1].a = {0, 1, 2}
  /\ Len(th[1].trace) > 0
  /\ th[1].trace = CallSequence(params)

(***************************************************************************)
(* C6.  Scoped zeroization: when gf2x_mod_inv returns, f, g, t and sec_buf *)
(* are zero-filled; of the locals of the call only the output c holds a    *)
(* value derived from the input.                                           *)
(***************************************************************************)
C6_Zeroized ==
  \A tid \in Threads :
    Done(tid) =>
      /\ th[tid].f = Zero(ctx)
      /\ th[tid].g = Zero(ctx)
      /\ th[tid].t = Zero(ctx)
      /\ SecBuf(tid) = Zero(ctx)

\* a call has returned a nonzero c for R = 773
C6_Witness ==
  /\ Done(1)
  /\ params = Level11
  /\ th[1].a = {0, 1}
  /\ th[1].c # {}
  /\ SecBuf(1) = {}

(***************************************************************************)
(* C7.  Concurrent inversions do not interfere: under every interleaving   *)
(* of the steps of two calls on different inputs, each call returns the    *)
(* value it returns when run alone, and no step writes the tables or the   *)
(* context.                                                                *)
(***************************************************************************)
C7_NoInterference ==
  /\ [](\A tid \in Threads :
          Done(tid) => th[tid].c = gf2x_mod_inv(ctx, params, th[tid].a))
  /\ [][params' = params /\ ctx' = ctx]_vars

\* both calls have returned for R = 773: the inverses of 1 and of x
C7_Witness ==
  /\ Done(1)
  /\ Done(2)
  /\ params = Level11
  /\ th[1].a = {0}
  /\ th[2].a = {1}
  /\ th[1].c = {0}
  /\ th[2].c = {772}

(***************************************************************************)
(* C8.  Non-invertible inputs are harmless: for every input, the zero      *)
(* polynomial and the non-invertible ones included, gf2x_mod_inv returns   *)
(* after a number of context calls fixed by the table, and every table     *)
(* read (exp0_k[i-1], exp0_l[i-1], exp1_k[i], exp1_l[i]) uses an index in  *)
(* 0..MAX_I-1.                                                             *)
(***************************************************************************)
\* the calls one exponentiation with parameter k issues
ExpCalls(k) == IF k <= 64 THEN 2 * k ELSE 1

RECURSIVE LoopCalls(_, _)
LoopCalls(p, i) ==
  IF i < 1 THEN 0
  ELSE LoopCalls(p, i - 1) + ExpCalls(p.EXP0_K_VALS[i]) + 1
       + (IF p.EXP1_K_VALS[i + 1] # 0
          THEN ExpCalls(p.EXP1_K_VALS[i + 1]) + 1 ELSE 0)

CallCount(p) == LoopCalls(p, p.MAX_I - 1) + 2

ReadsInBounds(s) ==
  /\ s.pc = "exp0" => (s.i - 1) \in 0..(params.MAX_I - 1)
  /\ s.pc \in {"mulf", "exp1"} => s.i \in 0..(params.MAX_I - 1)

C8_Harmless ==
  /\ [](\A tid \in DOMAIN th :
          /\ ReadsInBounds(th[tid])
          /\ Len(th[tid].trace) <= CallCount(params)
          /\ Done(tid) => Len(th[tid].trace) = CallCount(params))
  /\ <>(\A tid \in DOMAIN th : Done(tid))

\* the call on the zero polynomial for R = 773 has returned
C8_Witness ==
  /\ Done(1)
  /\ params = Level11
  /\ th[1].a = {}
  /\ Len(th[1].trace) = CallCount(params)

(***************************************************************************)
(* C9.  As claimed: after iteration i of the loop (f = f*g executed i      *)
(* times, i in 1..MAX_I-1) f equals a^(2^(2^i - 1)).                       *)
(***************************************************************************)
\* how many times f = f*g has been executed in frame s
Iterations(s) ==
  CASE s.pc \in {"exp1", "mult"}           -> s.i
    [] s.pc \in {"exp0", "mulf", "return"} -> s.i - 1
    [] s.pc \in {"sqr", "red"}             -> IF s.ret = "mult" THEN s.i ELSE s.i - 1
    [] OTHER                               -> 0

C9_Original ==
  \A tid \in Threads :
    (tid \in DOMAIN th /\ ctx = "exponent" /\ Iterations(th[tid]) >= 1) =>
      th[tid].f = {Pow2(Iterations(th[tid])) - 1}

(***************************************************************************)
(* C9, amended.  With f and t both initialised to a, after iteration i of  *)
(* the loop (i in 1..MAX_I-1) the accumulator f equals a^(2^(2^i) - 1),    *)
(* the exponent whose one-bits are 0..2^i-1.                               *)
(***************************************************************************)
C9_Amended ==
  \A tid \in Threads :
    (tid \in DOMAIN th /\ ctx = "exponent" /\ Iterations(th[tid]) >= 1) =>
      th[tid].f = 0..(Pow2(Iterations(th[tid])) - 1)

\* the last iteration for R = 24659 has multiplied f
C9_Witness ==
  /\ params = Level3
  /\ ctx = "exponent"
  /\ th[1].pc = "exp1"
  /\ th[1].i = 14
  /\ th[1].f = 0..16383

(***************************************************************************)
(* C10.  Exponentiation dispatch by threshold: an exponentiation with      *)
(* parameters (k, l) issues, if k <= 64, exactly k times a sqr followed by *)
(* a red, starting from a copy of f, and no k_sqr; if k > 64, exactly one  *)
(* k_sqr with parameter l and no squaring.  k = 64 takes the repeated      *)
(* squarings; the rule is the same for exponentiation 0 (exp0_k[i-1],      *)
(* exp0_l[i-1]) and exponentiation 1 (exp1_k[i], exp1_l[i]).               *)
(***************************************************************************)
ExpectedCalls(k, l) ==
  IF k <= 64
  THEN [n \in 1..(2 * k) |-> IF n % 2 = 1 THEN <<"sqr", 0>> ELSE <<"red", 0>>]
  ELSE << <<"k_sqr", l>> >>

\* the calls issued since the last multiplication are those expected
SinceLastMul(trace, calls) ==
  LET m == Len(trace)
      n == Len(calls)
  IN  /\ n <= m
      /\ SubSeq(trace, m - n + 1, m) = calls
      /\ m > n => trace[m - n] = <<"mul", 0>>

====
